---- MODULE Spec2Model ----
(***************************************************************************)
(* Prompt Mixer (src/app.js): the reconciliation engine between a          *)
(* category's selected option indices and its free output text, with the   *)
(* per-category undo stack, the persisted documents, the summary and the   *)
(* day's history of saved snapshots.                                       *)
(*                                                                         *)
(* A JavaScript string is modelled as a sequence of one-character strings: *)
(* "a, b" is <<"a", ",", " ", "b">>.  The regular expressions of app.js    *)
(* are modelled by what they match on such sequences.                      *)
(***************************************************************************)
EXTENDS Integers, Sequences, FiniteSets, TLC

VARIABLES
    state,           \* app.js:98   [isNull, categories]; null is NullState
    outputsByCatId,  \* app.js:100  catId -> [text, dirty, undo, lastValue]
    lsState,         \* localStorage[STORAGE_KEY_STATE]
    lsOutputs,       \* localStorage[STORAGE_KEY_OUTPUTS]
    elSummary,       \* elSummary.value
    modalCatId,      \* app.js:123
    pending,         \* resetDefaults() calls suspended at `await loadDefaults()`
    booted,          \* init() has run to its end (handlers are bound)
    last,            \* the handler that ran last, with its arguments
    steps,           \* number of handlers run so far
    pt, po, pr,      \* pure-function harness: text, option, last result
    history,         \* localStorage[historyKey()]: today's {id, time, text} items
    saveLog,         \* the ids of the items saved so far, in the order of the saves
    downloaded       \* the lines of the file downloadHistoryTxt wrote last

appVars == <<state, outputsByCatId, lsState, lsOutputs, elSummary, modalCatId,
             pending, booted, last, steps>>
pureVars == <<pt, po, pr, history, saveLog, downloaded>>
histVars == <<history, saveLog, downloaded>>
vars == <<state, outputsByCatId, lsState, lsOutputs, elSummary, modalCatId,
          pending, booted, last, steps, pt, po, pr, history, saveLog, downloaded>>

----------------------------------------------------------------------------
(* Bounds of the model *)

MaxSteps == 3
MaxTextLen == 4
MaxOptLen == 2
MaxPending == 2

----------------------------------------------------------------------------
(* Strings *)

Null == "null"

\* `let state = null`, and what loadState() returns when nothing is stored
NullState == [isNull |-> TRUE, categories |-> <<>>]

Chars == {"a", "b", ",", " "}

EmptyStr == <<>>

\* \s of the regular expressions and the characters String.prototype.trim strips
IsSpace(c) == c \in {" ", "\n"}

Min(S) == CHOOSE x \in S : \A y \in S : x <= y
Max(S) == CHOOSE x \in S : \A y \in S : x >= y

\* s.slice(i - 1): the rest of s from position i (1-based)
From(s, i) == SubSeq(s, i, Len(s))

\* every character of s[i..j] is whitespace
AllSpace(s, i, j) == \A k \in i..j : IsSpace(s[k])

\* the first position >= i of s that holds no whitespace (Len(s) + 1 if none):
\* where a greedy \s* started at i ends
SkipSpace(s, i) == Min({k \in i..(Len(s) + 1) : k = Len(s) + 1 \/ ~IsSpace(s[k])})

\* the first position >= i of s that holds no comma: where a greedy ,+ ends
SkipCommas(s, i) == Min({k \in i..(Len(s) + 1) : k = Len(s) + 1 \/ s[k] # ","})

\* String.prototype.trim
Trim(s) ==
    LET keep == {i \in 1..Len(s) : ~IsSpace(s[i])}
    IN  IF keep = {} THEN EmptyStr ELSE SubSeq(s, Min(keep), Max(keep))

\* the escaped option matches literally: opt occurs in s at position p
OccursAt(s, opt, p) ==
    /\ p >= 1
    /\ p + Len(opt) - 1 <= Len(s)
    /\ SubSeq(s, p, p + Len(opt) - 1) = opt

\* tokenRegex(opt).test(t):  (?:^|,\s*) opt (?=\s*(?:,|$))
TokenRegexTest(t, opt) ==
    \E p \in 1..(Len(t) + 1) :
        /\ OccursAt(t, opt, p)
        /\ \/ p = 1
           \/ \E q \in 1..(p - 1) : t[q] = "," /\ AllSpace(t, q + 1, p - 1)
        /\ LET e == SkipSpace(t, p + Len(opt))
           IN  e = Len(t) + 1 \/ t[e] = ","

hasOptionToken(text, opt) ==
    LET t == Trim(text)
    IN  IF t = EmptyStr \/ opt = EmptyStr THEN FALSE ELSE TokenRegexTest(t, opt)

\* t.replace(/,\s*$/, ""): the leftmost comma that only whitespace follows
StripTrailingComma(t) ==
    LET qs == {q \in 1..Len(t) : t[q] = "," /\ AllSpace(t, q + 1, Len(t))}
    IN  IF qs = {} THEN t ELSE SubSeq(t, 1, Min(qs) - 1)

\* addOptionToken joining without the ", " separator
addOptionTokenNoSeparator(text, opt) ==
    LET t == Trim(text)
        base == Trim(StripTrailingComma(t))
    IN  IF opt = EmptyStr THEN t
        ELSE IF hasOptionToken(t, opt) THEN t
        ELSE IF t = EmptyStr THEN opt
        ELSE base \o opt

addOptionToken(text, opt) ==
    LET t == Trim(text)
        base == Trim(StripTrailingComma(t))
    IN  IF opt = EmptyStr THEN t
        ELSE IF hasOptionToken(t, opt) THEN t
        ELSE IF t = EmptyStr THEN opt
        ELSE IF base # EmptyStr THEN base \o <<",", " ">> \o opt ELSE opt

\* t.replace(new RegExp(`^${e}\\s*(?:,\\s*)?`), "")
RemoveAtStart(t, opt) ==
    IF ~OccursAt(t, opt, 1) THEN t
    ELSE LET b == SkipSpace(t, Len(opt) + 1)
             c == IF b <= Len(t) /\ t[b] = "," THEN SkipSpace(t, b + 1) ELSE b
         IN  From(t, c)

\* the length of the match of (?:,\s*)opt at position i of t, 0 if none; the
\* greedy \s* gives back whitespace that opt itself starts with
SepOptMatch(t, opt, i) ==
    LET ks == {k \in 0..(Len(t) - i) :
                  AllSpace(t, i + 1, i + k) /\ OccursAt(t, opt, i + k + 1)}
    IN  IF t[i] = "," /\ ks # {} THEN 1 + Max(ks) + Len(opt) ELSE 0

\* t.replace(new RegExp(`(?:,\\s*)${e}`, "g"), ""), scanning from position i
RECURSIVE RemoveElsewhere(_, _, _)
RemoveElsewhere(t, opt, i) ==
    IF i > Len(t) THEN EmptyStr
    ELSE LET m == SepOptMatch(t, opt, i)
         IN  IF m > 0 THEN RemoveElsewhere(t, opt, i + m)
             ELSE <<t[i]>> \o RemoveElsewhere(t, opt, i + 1)

\* t.replace(/^\s*,\s*/, "")
StripLeadingSep(t) ==
    LET b == SkipSpace(t, 1)
    IN  IF b <= Len(t) /\ t[b] = "," THEN From(t, SkipSpace(t, b + 1)) ELSE t

\* t.replace(/\s*,\s*$/, ""): the leftmost start of whitespace, a comma and
\* whitespace up to the end
StripTrailingSep(t) ==
    LET ss == {s \in 1..Len(t) :
                  \E q \in s..Len(t) :
                      /\ AllSpace(t, s, q - 1)
                      /\ t[q] = ","
                      /\ AllSpace(t, q + 1, Len(t))}
    IN  IF ss = {} THEN t ELSE SubSeq(t, 1, Min(ss) - 1)

\* t.replace(/,\s*,+/g, ", "), scanning from position i
RECURSIVE CollapseCommas(_, _)
CollapseCommas(t, i) ==
    IF i > Len(t) THEN EmptyStr
    ELSE LET j == SkipSpace(t, i + 1)
         IN  IF t[i] = "," /\ j <= Len(t) /\ t[j] = ","
             THEN <<",", " ">> \o CollapseCommas(t, SkipCommas(t, j))
             ELSE <<t[i]>> \o CollapseCommas(t, i + 1)

\* t.replace(/\s{2,}/g, " "), scanning from position i
RECURSIVE CollapseSpaces(_, _)
CollapseSpaces(t, i) ==
    IF i > Len(t) THEN EmptyStr
    ELSE IF IsSpace(t[i]) /\ i + 1 <= Len(t) /\ IsSpace(t[i + 1])
         THEN <<" ">> \o CollapseSpaces(t, SkipSpace(t, i))
         ELSE <<t[i]>> \o CollapseSpaces(t, i + 1)

removeOptionToken(text, opt) ==
    LET t == Trim(text)
        t1 == RemoveAtStart(t, opt)
        t2 == RemoveElsewhere(t1, opt, 1)
        t3 == StripTrailingSep(StripLeadingSep(t2))
        t4 == CollapseCommas(t3, 1)
    IN  IF t = EmptyStr \/ opt = EmptyStr THEN t
        ELSE Trim(CollapseSpaces(t4, 1))

----------------------------------------------------------------------------
(* Data *)

\* defaults.json, as loadDefaults() returns it: {id, name, options} records
Defaults ==
    << [id |-> "c1", name |-> <<"S">>, options |-> << <<"a">>, <<"a", "b">> >>],
       [id |-> "c2", name |-> <<"T">>, options |-> << <<"b">> >>] >>

\* randomId(): identifiers addCategory can draw
NewIds == {"n1"}

\* what the user can leave in a textarea (ta.value)
EditTexts ==
    { EmptyStr,
      <<"a">>,
      <<"a", "b">>,
      <<"b", ",", " ", "a">>,
      <<"b">>,
      <<"b", ",">>,
      <<" ", "b">> }

\* what prompt("Category name:") returns; a cancelled prompt (null) takes the
\* same `if (!name) return` as the empty string
PromptNames == { EmptyStr, <<" ">>, <<"N">> }

\* the bulk modal's fields: modalCategoryName.value and modalLines.value
\* (the lines of the textarea, before trimming)
BulkInputs ==
    { [name |-> EmptyStr, lines |-> << <<"b">>, EmptyStr, <<" ", "a">> >>],
      [name |-> <<"U">>, lines |-> << >>] }

\* outputsByCatId = {} ; the record ensureOutputEntry and addCategory create
NoOutputs == [k \in {} |-> 0]
NewOutput == [text |-> EmptyStr, dirty |-> FALSE, undo |-> <<>>, lastValue |-> EmptyStr]

\* pushUndo keeps the last UndoCap entries
UndoCap == 120

\* the record kept of the handler that ran last
\* (val: the text an input notification carried; alert: the message the
\* handler showed with alert(), "" if none)
NoOp == [op |-> "none", cat |-> Null, idx |-> 0, on |-> FALSE,
         prev |-> EmptyStr, pushed |-> FALSE, val |-> EmptyStr, alert |-> ""]
Ran(op, cat, idx, on, prev, pushed) ==
    [op |-> op, cat |-> cat, idx |-> idx, on |-> on, prev |-> prev, pushed |-> pushed,
     val |-> EmptyStr, alert |-> ""]

----------------------------------------------------------------------------
(* Core helpers *)

\* state.categories.find(c => c.id === catId): its position, 0 if none
FindCat(st, catId) ==
    LET ps == {i \in 1..Len(st.categories) : st.categories[i].id = catId}
    IN  IF ps = {} THEN 0 ELSE Min(ps)

CatIds(st) == {st.categories[i].id : i \in 1..Len(st.categories)}

\* outputsByCatId[catId]?.text || ""
OutText(outs, catId) == IF catId \in DOMAIN outs THEN outs[catId].text ELSE EmptyStr

\* ensureOutputEntry for one category
ensureOutputEntry(outs, catId) ==
    IF catId \in DOMAIN outs THEN outs ELSE outs @@ (catId :> NewOutput)

\* ensureOutputEntry for every category, as renderOutputs and buildSummary do
EnsureAll(st, outs) ==
    [k \in (DOMAIN outs) \cup CatIds(st) |-> IF k \in DOMAIN outs THEN outs[k] ELSE NewOutput]

\* pushUndo putting the entry at the front of the stack (unshift for push)
pushUndoFront(out, prevText) ==
    LET u == <<prevText>> \o out.undo
    IN  [out EXCEPT !.undo = IF Len(u) > UndoCap THEN SubSeq(u, 1, UndoCap) ELSE u]

\* out.undo.push(prevText); if (out.undo.length > 120) out.undo.shift()
pushUndo(out, prevText) ==
    LET u == Append(out.undo, prevText)
    IN  [out EXCEPT !.undo = IF Len(u) > UndoCap THEN Tail(u) ELSE u]

\* the indices i, ascending, with options[i] non-empty and a token of text
RECURSIVE SelFrom(_, _, _)
SelFrom(options, t, i) ==
    IF i > Len(options) THEN <<>>
    ELSE IF options[i] # EmptyStr /\ hasOptionToken(t, options[i])
         THEN <<i>> \o SelFrom(options, t, i + 1)
         ELSE SelFrom(options, t, i + 1)

\* reconcileSelectionFromText merging into the prior selection instead of
\* replacing it
reconcileMerging(cat, text) ==
    [cat EXCEPT !.selected = @ \o SelFrom(cat.options, Trim(text), 1)]

reconcileSelectionFromText(cat, text) ==
    [cat EXCEPT !.selected = SelFrom(cat.options, Trim(text), 1)]

\* blocks.join("\n\n") over the categories from position i on
RECURSIVE JoinBlocks(_, _, _, _)
JoinBlocks(st, outs, i, first) ==
    IF i > Len(st.categories) THEN EmptyStr
    ELSE LET text == Trim(OutText(outs, st.categories[i].id))
         IN  IF text = EmptyStr THEN JoinBlocks(st, outs, i + 1, first)
             ELSE (IF first THEN EmptyStr ELSE <<"\n", "\n">>)
                  \o text \o JoinBlocks(st, outs, i + 1, FALSE)

\* buildSummary keeping a block for every category, empty text or not, and
\* not trimming the texts
buildSummaryKeepEmpty(st, outs) ==
    LET RECURSIVE Blocks(_)
        Blocks(i) ==
            IF i > Len(st.categories) THEN EmptyStr
            ELSE (IF i = 1 THEN EmptyStr ELSE <<"\n", "\n">>)
                 \o OutText(outs, st.categories[i].id) \o Blocks(i + 1)
    IN  Blocks(1)

buildSummary(st, outs) == JoinBlocks(st, outs, 1, TRUE)

isAllSelected(cat) == Len(cat.selected) = Len(cat.options) /\ Len(cat.options) > 0

\* (cat.options || []).filter(Boolean)
RECURSIVE FilterBoolean(_)
FilterBoolean(ss) ==
    IF ss = <<>> THEN <<>>
    ELSE IF Head(ss) = EmptyStr THEN FilterBoolean(Tail(ss))
         ELSE <<Head(ss)>> \o FilterBoolean(Tail(ss))

\* lines.map(s => s.trim())
TrimEach(ss) == [i \in 1..Len(ss) |-> Trim(ss[i])]

\* for (const s of opts) next = addOptionToken(next, s)
RECURSIVE AddEach(_, _)
AddEach(text, opts) ==
    IF opts = <<>> THEN text ELSE AddEach(addOptionToken(text, Head(opts)), Tail(opts))

\* for (const s of opts) next = removeOptionToken(next, s)
RECURSIVE RemoveEach(_, _)
RemoveEach(text, opts) ==
    IF opts = <<>> THEN text ELSE RemoveEach(removeOptionToken(text, Head(opts)), Tail(opts))

\* the text applyLeftToggle computes for option opt
ToggleNext(prev, opt, checked) ==
    IF checked THEN addOptionToken(prev, opt) ELSE removeOptionToken(prev, opt)

\* the text applyLeftAllClear computes
AllClearNext(prev, options, selectAll) ==
    IF selectAll THEN AddEach(prev, FilterBoolean(options))
    ELSE RemoveEach(prev, FilterBoolean(options))

\* SetText pushing whether or not the text changed
SetTextAlwaysPush(out, prev, next) ==
    [pushUndo(out, prev) EXCEPT !.text = next, !.lastValue = next, !.dirty = TRUE]

\* out.text = next; out.lastValue = next; out.dirty = true, after the push
\* `if (next !== prev) pushUndo(cat.id, prev)`
SetText(out, prev, next) ==
    LET o == IF next # prev THEN pushUndo(out, prev) ELSE out
    IN  [o EXCEPT !.text = next, !.lastValue = next, !.dirty = TRUE]

\* defaults.categories.map(c => ({id, name, options: c.options.slice(), selected: []}))
FromDefaults(defaults) ==
    [isNull |-> FALSE, categories |-> [i \in 1..Len(defaults) |->
        [id |-> defaults[i].id, name |-> defaults[i].name,
         options |-> defaults[i].options, selected |-> <<>>]]]

----------------------------------------------------------------------------
(* The persisted documents the program starts from *)

\* first run: nothing stored
FreshDocs == [st |-> NullState, outs |-> NoOutputs, hist |-> <<>>]

\* a later run: what persist() stored after "a" was checked in c1
StoredDocs ==
    [st |-> [isNull |-> FALSE, categories |->
                << [id |-> "c1", name |-> <<"S">>,
                    options |-> << <<"a">>, <<"a", "b">> >>, selected |-> <<1>>],
                   [id |-> "c2", name |-> <<"T">>,
                    options |-> << <<"b">> >>, selected |-> <<>>] >>],
     outs |-> ("c1" :> [text |-> <<"a">>, dirty |-> TRUE, undo |-> <<EmptyStr>>,
                        lastValue |-> <<"a">>])
              @@ ("c2" :> NewOutput),
     hist |-> << [id |-> 1, time |-> 1, text |-> <<"a">>] >>]

\* a later run: what persist() stored after "a" of c1 was checked and
\* unchecked in turn until the undo stack held UndoCap - 1 entries
LongUndo == [i \in 1..(UndoCap - 1) |-> IF i % 2 = 1 THEN EmptyStr ELSE <<"a">>]
LongText == IF (UndoCap - 1) % 2 = 1 THEN <<"a">> ELSE EmptyStr
NearCapDocs ==
    [st |-> [isNull |-> FALSE, categories |->
                << [id |-> "c1", name |-> <<"S">>,
                    options |-> << <<"a">>, <<"a", "b">> >>,
                    selected |-> IF LongText = EmptyStr THEN <<>> ELSE <<1>>] >>],
     outs |-> ("c1" :> [text |-> LongText, dirty |-> TRUE, undo |-> LongUndo,
                        lastValue |-> LongText]),
     hist |-> <<>>]

----------------------------------------------------------------------------
(* Handlers *)

CanRun == booted /\ steps < MaxSteps

\* the end of a handler without persist(): the stored documents stay behind
CommitUnsaved(st, outs, rec) ==
    /\ state' = st
    /\ outputsByCatId' = EnsureAll(st, outs)
    /\ elSummary' = buildSummary(st, EnsureAll(st, outs))
    /\ last' = rec
    /\ steps' = steps + 1
    /\ UNCHANGED <<lsState, lsOutputs>>

\* what every handler ends with: persist(); renderCategories();
\* renderOutputs() (which calls ensureOutputEntry for every category);
\* updateSummary()
Commit(st, outs, rec) ==
    /\ state' = st
    /\ lsState' = st
    /\ lsOutputs' = outs
    /\ outputsByCatId' = EnsureAll(st, outs)
    /\ elSummary' = buildSummary(st, EnsureAll(st, outs))
    /\ last' = rec
    /\ steps' = steps + 1

\* a handler that returned before changing anything
Returned(rec) ==
    /\ last' = rec
    /\ steps' = steps + 1
    /\ UNCHANGED <<state, outputsByCatId, lsState, lsOutputs, elSummary>>

\* state with the category at position p replaced by cat
WithCat(st, p, cat) == [st EXCEPT !.categories[p] = cat]

\* init(): state from the stored document, or from the defaults; normalise;
\* reconcile the selection of every category with non-empty text; persist
InitState(st0) ==
    LET outs == EnsureAll(st0, outputsByCatId)
        st == [st0 EXCEPT !.categories =
                  [i \in 1..Len(st0.categories) |->
                      IF Len(outs[st0.categories[i].id].text) > 0
                      THEN reconcileSelectionFromText(st0.categories[i],
                                                      outs[st0.categories[i].id].text)
                      ELSE st0.categories[i]]]
    IN  /\ state' = st
        /\ lsState' = st
        /\ lsOutputs' = outs
        /\ outputsByCatId' = outs
        /\ elSummary' = buildSummary(st, outs)
        /\ booted' = TRUE
        /\ UNCHANGED <<modalCatId, pending, last, steps, pt, po, pr, history, saveLog, downloaded>>

init ==
    /\ ~booted
    /\ state = NullState
    /\ \/ /\ ~lsState.isNull
          /\ InitState(lsState)
       \/ /\ lsState.isNull
          /\ InitState(FromDefaults(Defaults))

\* init() when loadDefaults() throws: alert("Failed to start app"), nothing bound
initFails ==
    /\ ~booted
    /\ state = NullState
    /\ lsState.isNull
    /\ last.op = "none"
    /\ last' = [Ran("initFailed", Null, 0, FALSE, EmptyStr, FALSE)
                 EXCEPT !.alert = "Failed to start app: Failed to load defaults.json"]
    /\ UNCHANGED <<state, outputsByCatId, lsState, lsOutputs, elSummary,
                   modalCatId, pending, booted, steps, pt, po, pr, history, saveLog, downloaded>>

applyLeftToggle(st, outs, p, idx, checked) ==
    LET cat == st.categories[p]
        outs1 == ensureOutputEntry(outs, cat.id)
        out == outs1[cat.id]
        prev == out.text
        next == ToggleNext(prev, cat.options[idx], checked)
    IN  IF idx \notin 1..Len(cat.options) \/ cat.options[idx] = EmptyStr
        THEN [st |-> st, outs |-> outs1, prev |-> prev, pushed |-> FALSE]
        ELSE [st |-> WithCat(st, p, reconcileSelectionFromText(cat, next)),
              outs |-> [outs1 EXCEPT ![cat.id] = SetText(out, prev, next)],
              prev |-> prev, pushed |-> next # prev]

toggleOption(catId, idx, checked) ==
    /\ CanRun
    /\ LET p == FindCat(state, catId)
           r == applyLeftToggle(state, outputsByCatId, p, idx, checked)
       IN  IF p = 0
           THEN Returned(Ran("toggleOption", catId, idx, checked, EmptyStr, FALSE))
           ELSE Commit(r.st, r.outs,
                       Ran("toggleOption", catId, idx, checked, r.prev, r.pushed))
    /\ UNCHANGED <<modalCatId, pending, booted, pt, po, pr, history, saveLog, downloaded>>

\* applyLeftAllClear pushing once per option instead of once per batch
applyLeftAllClearPerOption(st, outs, p, selectAll) ==
    LET cat == st.categories[p]
        outs1 == ensureOutputEntry(outs, cat.id)
        out == outs1[cat.id]
        prev == out.text
        next == AllClearNext(prev, cat.options, selectAll)
        RECURSIVE PushEach(_, _)
        PushEach(o, n) == IF n = 0 THEN o ELSE PushEach(pushUndo(o, prev), n - 1)
        pushes == IF next # prev THEN Len(FilterBoolean(cat.options)) ELSE 0
    IN  [st |-> WithCat(st, p, reconcileSelectionFromText(cat, next)),
         outs |-> [outs1 EXCEPT ![cat.id] =
                      [PushEach(out, pushes) EXCEPT
                          !.text = next, !.lastValue = next, !.dirty = TRUE]],
         prev |-> prev, pushed |-> next # prev]

applyLeftAllClear(st, outs, p, selectAll) ==
    LET cat == st.categories[p]
        outs1 == ensureOutputEntry(outs, cat.id)
        out == outs1[cat.id]
        prev == out.text
        next == AllClearNext(prev, cat.options, selectAll)
    IN  [st |-> WithCat(st, p, reconcileSelectionFromText(cat, next)),
         outs |-> [outs1 EXCEPT ![cat.id] = SetText(out, prev, next)],
         prev |-> prev, pushed |-> next # prev]

toggleAll(catId) ==
    /\ CanRun
    /\ LET p == FindCat(state, catId)
           selectAll == ~isAllSelected(state.categories[p])
           r == applyLeftAllClear(state, outputsByCatId, p, selectAll)
       IN  IF p = 0 \/ Len(state.categories[p].options) = 0
           THEN Returned(Ran("toggleAll", catId, 0, FALSE, EmptyStr, FALSE))
           ELSE Commit(r.st, r.outs,
                       Ran("toggleAll", catId, 0, selectAll, r.prev, r.pushed))
    /\ UNCHANGED <<modalCatId, pending, booted, pt, po, pr, history, saveLog, downloaded>>

\* the input listener without its own cap on the undo stack
inputEditUncapped(out, v) ==
    LET o == IF out.lastValue # v
             THEN [out EXCEPT !.undo = Append(out.undo, out.lastValue), !.lastValue = v]
             ELSE out
    IN  [o EXCEPT !.text = v, !.dirty = TRUE]

\* the input listener pushing on every notification, changed content or not
inputEditNoDedupe(out, v) ==
    LET u == Append(out.undo, out.lastValue)
    IN  [out EXCEPT !.undo = IF Len(u) > UndoCap THEN Tail(u) ELSE u,
                    !.lastValue = v, !.text = v, !.dirty = TRUE]

\* the textarea's "input" listener, for the category and the output entry
\* renderOutputs bound it to
inputEdit(out, v) ==
    LET changed == out.lastValue # v
        u == Append(out.undo, out.lastValue)
        o == IF changed
             THEN [out EXCEPT !.undo = IF Len(u) > UndoCap THEN Tail(u) ELSE u,
                              !.lastValue = v]
             ELSE out
    IN  [o EXCEPT !.text = v, !.dirty = TRUE]

onInput(catId, v) ==
    /\ CanRun
    /\ FindCat(state, catId) # 0
    /\ catId \in DOMAIN outputsByCatId
    /\ LET p == FindCat(state, catId)
           out == outputsByCatId[catId]
           outs == [outputsByCatId EXCEPT ![catId] = inputEdit(out, v)]
           st == WithCat(state, p, reconcileSelectionFromText(state.categories[p], v))
       IN  /\ state' = st
           /\ outputsByCatId' = outs
           /\ lsState' = st
           /\ lsOutputs' = outs
           /\ elSummary' = buildSummary(st, outs)
           /\ last' = [Ran("input", catId, 0, FALSE, out.text, out.lastValue # v)
                        EXCEPT !.val = v]
           /\ steps' = steps + 1
    /\ UNCHANGED <<modalCatId, pending, booted, pt, po, pr, history, saveLog, downloaded>>

\* clearOutput emptying the text of every category's output, not only catId's
clearOutputEvery(catId) ==
    /\ CanRun
    /\ LET p == FindCat(state, catId)
           out == outputsByCatId[catId]
           Cleared(o) == [pushUndo(o, o.text) EXCEPT
                             !.text = EmptyStr, !.lastValue = EmptyStr, !.dirty = TRUE]
       IN  IF p = 0 \/ catId \notin DOMAIN outputsByCatId
           THEN Returned(Ran("clearOutput", catId, 0, FALSE, EmptyStr, FALSE))
           ELSE Commit(WithCat(state, p,
                           reconcileSelectionFromText(state.categories[p], EmptyStr)),
                       [k \in DOMAIN outputsByCatId |-> Cleared(outputsByCatId[k])],
                       Ran("clearOutput", catId, 0, FALSE, out.text, TRUE))
    /\ UNCHANGED <<modalCatId, pending, booted, pt, po, pr, history, saveLog, downloaded>>

clearOutput(catId) ==
    /\ CanRun
    /\ LET p == FindCat(state, catId)
           out == outputsByCatId[catId]
           o == [pushUndo(out, out.text) EXCEPT
                    !.text = EmptyStr, !.lastValue = EmptyStr, !.dirty = TRUE]
       IN  IF p = 0 \/ catId \notin DOMAIN outputsByCatId
           THEN Returned(Ran("clearOutput", catId, 0, FALSE, EmptyStr, FALSE))
           ELSE Commit(WithCat(state, p,
                           reconcileSelectionFromText(state.categories[p], EmptyStr)),
                       [outputsByCatId EXCEPT ![catId] = o],
                       Ran("clearOutput", catId, 0, FALSE, out.text, TRUE))
    /\ UNCHANGED <<modalCatId, pending, booted, pt, po, pr, history, saveLog, downloaded>>

\* undoOutput marking the output dirty, and persisting, on an empty stack
undoOutputDirtyOnEmpty(catId) ==
    /\ CanRun
    /\ LET p == FindCat(state, catId)
           out == outputsByCatId[catId]
           prev == IF Len(out.undo) = 0 THEN out.text ELSE out.undo[Len(out.undo)]
           o == [out EXCEPT !.undo = SubSeq(out.undo, 1, Len(out.undo) - 1),
                            !.text = prev, !.lastValue = prev, !.dirty = TRUE]
       IN  IF p = 0 \/ catId \notin DOMAIN outputsByCatId
           THEN Returned(Ran("undoOutput", catId, 0, FALSE, EmptyStr, FALSE))
           ELSE Commit(WithCat(state, p,
                           reconcileSelectionFromText(state.categories[p], prev)),
                       [outputsByCatId EXCEPT ![catId] = o],
                       Ran("undoOutput", catId, 0, Len(out.undo) > 0, out.text, FALSE))
    /\ UNCHANGED <<modalCatId, pending, booted, pt, po, pr, history, saveLog, downloaded>>

undoOutput(catId) ==
    /\ CanRun
    /\ LET p == FindCat(state, catId)
           out == outputsByCatId[catId]
           prev == out.undo[Len(out.undo)]
           o == [out EXCEPT !.undo = SubSeq(out.undo, 1, Len(out.undo) - 1),
                            !.text = prev, !.lastValue = prev, !.dirty = TRUE]
       IN  IF p = 0 \/ catId \notin DOMAIN outputsByCatId
           THEN Returned(Ran("undoOutput", catId, 0, FALSE, EmptyStr, FALSE))
           ELSE IF Len(out.undo) = 0
           THEN Returned(Ran("undoOutput", catId, 0, FALSE, out.text, FALSE))
           ELSE Commit(WithCat(state, p,
                           reconcileSelectionFromText(state.categories[p], prev)),
                       [outputsByCatId EXCEPT ![catId] = o],
                       Ran("undoOutput", catId, 0, TRUE, out.text, FALSE))
    /\ UNCHANGED <<modalCatId, pending, booted, pt, po, pr, history, saveLog, downloaded>>

\* deleteCategory without `delete outputsByCatId[catId]`
DeleteCatKeepOutput(catId) ==
    LET keep == {i \in 1..Len(state.categories) : state.categories[i].id # catId}
        Nth(k) == CHOOSE i \in keep : Cardinality({j \in keep : j < i}) = k - 1
        st == [state EXCEPT !.categories =
                  [k \in 1..Cardinality(keep) |-> state.categories[Nth(k)]]]
    IN  Commit(st, outputsByCatId, Ran("deleteCategory", catId, 0, TRUE, EmptyStr, FALSE))

\* deleteCategory once confirm() was answered yes
DeleteCat(catId) ==
    LET keep == {i \in 1..Len(state.categories) : state.categories[i].id # catId}
        Nth(k) == CHOOSE i \in keep : Cardinality({j \in keep : j < i}) = k - 1
        st == [state EXCEPT !.categories =
                  [k \in 1..Cardinality(keep) |-> state.categories[Nth(k)]]]
        outs == [k \in (DOMAIN outputsByCatId) \ {catId} |-> outputsByCatId[k]]
    IN  Commit(st, outs, Ran("deleteCategory", catId, 0, TRUE, EmptyStr, FALSE))

deleteCategory(catId, confirmed) ==
    /\ CanRun
    /\ IF FindCat(state, catId) = 0 \/ ~confirmed
       THEN Returned(Ran("deleteCategory", catId, 0, FALSE, EmptyStr, FALSE))
       ELSE DeleteCat(catId)
    /\ UNCHANGED <<modalCatId, pending, booted, pt, po, pr, history, saveLog, downloaded>>

addCategory(name, id) ==
    /\ CanRun
    /\ id \notin CatIds(state)
    /\ LET nm == IF Trim(name) = EmptyStr
                 THEN <<"N", "e", "w", " ", "C", "a", "t", "e", "g", "o", "r", "y">>
                 ELSE Trim(name)
           cat == [id |-> id, name |-> nm, options |-> <<>>, selected |-> <<>>]
       IN  IF name = EmptyStr
           THEN Returned(Ran("addCategory", Null, 0, FALSE, EmptyStr, FALSE))
           ELSE Commit([state EXCEPT !.categories = <<cat>> \o @],
                       [k \in (DOMAIN outputsByCatId) \cup {id} |->
                           IF k = id THEN NewOutput ELSE outputsByCatId[k]],
                       Ran("addCategory", id, 0, TRUE, EmptyStr, FALSE))
    /\ UNCHANGED <<modalCatId, pending, booted, pt, po, pr, history, saveLog, downloaded>>

openBulkModal(catId) ==
    /\ CanRun
    /\ modalCatId = Null
    /\ modalCatId' = IF FindCat(state, catId) = 0 THEN modalCatId ELSE catId
    /\ Returned(Ran("openBulkModal", catId, 0, FindCat(state, catId) # 0, EmptyStr, FALSE))
    /\ UNCHANGED <<pending, booted, pt, po, pr, history, saveLog, downloaded>>

closeBulkModal ==
    /\ CanRun
    /\ modalCatId # Null
    /\ modalCatId' = Null
    /\ Returned(Ran("closeBulkModal", modalCatId, 0, FALSE, EmptyStr, FALSE))
    /\ UNCHANGED <<pending, booted, pt, po, pr, history, saveLog, downloaded>>

\* saveBulkModal keeping the prior selected indices instead of reconciling
saveBulkModalKeepSelected(name, rawLines) ==
    /\ CanRun
    /\ modalCatId # Null
    /\ LET p == FindCat(state, modalCatId)
           cat == state.categories[p]
           lines == FilterBoolean(TrimEach(rawLines))
           cat1 == [cat EXCEPT !.name = IF Trim(name) = EmptyStr THEN @ ELSE Trim(name),
                               !.options = lines]
           outs == ensureOutputEntry(outputsByCatId, cat.id)
       IN  IF p = 0
           THEN /\ Returned(Ran("saveBulkModal", modalCatId, 0, FALSE, EmptyStr, FALSE))
                /\ UNCHANGED modalCatId
           ELSE /\ Commit(WithCat(state, p, cat1), outs,
                          Ran("saveBulkModal", modalCatId, 0, TRUE, outs[cat.id].text, FALSE))
                /\ modalCatId' = Null
    /\ UNCHANGED <<pending, booted, pt, po, pr, history, saveLog, downloaded>>

saveBulkModal(name, rawLines) ==
    /\ CanRun
    /\ modalCatId # Null
    /\ LET p == FindCat(state, modalCatId)
           cat == state.categories[p]
           lines == FilterBoolean(TrimEach(rawLines))
           cat1 == [cat EXCEPT !.name = IF Trim(name) = EmptyStr THEN @ ELSE Trim(name),
                               !.options = lines]
           outs == ensureOutputEntry(outputsByCatId, cat.id)
       IN  IF p = 0
           THEN /\ Returned(Ran("saveBulkModal", modalCatId, 0, FALSE, EmptyStr, FALSE))
                /\ UNCHANGED modalCatId
           ELSE /\ Commit(WithCat(state, p,
                              reconcileSelectionFromText(cat1, outs[cat.id].text)),
                          outs,
                          Ran("saveBulkModal", modalCatId, 0, TRUE, outs[cat.id].text, FALSE))
                /\ modalCatId' = Null
    /\ UNCHANGED <<pending, booted, pt, po, pr, history, saveLog, downloaded>>

deleteFromModal(confirmed) ==
    /\ CanRun
    /\ modalCatId # Null
    /\ modalCatId' = Null
    /\ IF FindCat(state, modalCatId) = 0 \/ ~confirmed
       THEN Returned(Ran("deleteCategory", modalCatId, 0, FALSE, EmptyStr, FALSE))
       ELSE DeleteCat(modalCatId)
    /\ UNCHANGED <<pending, booted, pt, po, pr, history, saveLog, downloaded>>

\* resetDefaults() up to `await loadDefaults()`; a refused confirm() returns
resetDefaults(confirmed) ==
    /\ CanRun
    /\ pending < MaxPending
    /\ pending' = IF confirmed THEN pending + 1 ELSE pending
    /\ Returned(Ran("resetDefaults", Null, 0, confirmed, EmptyStr, FALSE))
    /\ UNCHANGED <<modalCatId, booted, pt, po, pr, history, saveLog, downloaded>>

\* resetDefaults without `outputsByCatId = {}`: the outputs survive the reset
resetLoadedKeepOutputs ==
    /\ CanRun
    /\ pending > 0
    /\ pending' = pending - 1
    /\ Commit(FromDefaults(Defaults), outputsByCatId,
              Ran("resetLoaded", Null, 0, TRUE, EmptyStr, FALSE))
    /\ UNCHANGED <<modalCatId, booted, pt, po, pr, history, saveLog, downloaded>>

\* resetDefaults() from the await on, the defaults loaded
resetLoaded ==
    /\ CanRun
    /\ pending > 0
    /\ pending' = pending - 1
    /\ Commit(FromDefaults(Defaults), NoOutputs,
              Ran("resetLoaded", Null, 0, TRUE, EmptyStr, FALSE))
    /\ UNCHANGED <<modalCatId, booted, pt, po, pr, history, saveLog, downloaded>>

\* resetDefaults emptying the output map before it awaits the defaults
resetFailedHalfway ==
    /\ CanRun
    /\ pending > 0
    /\ pending' = pending - 1
    /\ outputsByCatId' = NoOutputs
    /\ last' = [Ran("resetFailed", Null, 0, FALSE, EmptyStr, FALSE)
                   EXCEPT !.alert = "Failed to load defaults.json"]
    /\ steps' = steps + 1
    /\ UNCHANGED <<state, lsState, lsOutputs, elSummary>>
    /\ UNCHANGED <<modalCatId, booted, pt, po, pr, history, saveLog, downloaded>>

\* resetDefaults() from the await on, loadDefaults() having thrown:
\* .catch(e => alert(e.message))
resetFailed ==
    /\ CanRun
    /\ pending > 0
    /\ pending' = pending - 1
    /\ Returned([Ran("resetFailed", Null, 0, FALSE, EmptyStr, FALSE)
                    EXCEPT !.alert = "Failed to load defaults.json"])
    /\ UNCHANGED <<modalCatId, booted, pt, po, pr, history, saveLog, downloaded>>

----------------------------------------------------------------------------
(* The application *)

\* every identifier a handler can be called with
AllIds == {"c1", "c2"} \cup NewIds

NoResult == [ops |-> <<>>, vals |-> <<>>]

InitFrom(docs) ==
    /\ state = NullState
    /\ outputsByCatId = docs.outs
    /\ lsState = docs.st
    /\ lsOutputs = docs.outs
    /\ elSummary = EmptyStr
    /\ modalCatId = Null
    /\ pending = 0
    /\ booted = FALSE
    /\ last = NoOp
    /\ steps = 0
    /\ pt = EmptyStr
    /\ po = EmptyStr
    /\ pr = NoResult
    /\ history = docs.hist
    /\ saveLog = [k \in 1..Len(docs.hist) |-> docs.hist[Len(docs.hist) + 1 - k].id]
    /\ downloaded = <<>>

Init == \E docs \in {FreshDocs, StoredDocs, NearCapDocs} : InitFrom(docs)

Next ==
    \/ init
    \/ initFails
    \/ \E c \in AllIds, i \in 1..2, b \in BOOLEAN : toggleOption(c, i, b)
    \/ \E c \in AllIds : toggleAll(c)
    \/ \E c \in AllIds, v \in EditTexts : onInput(c, v)
    \/ \E c \in AllIds : clearOutput(c)
    \/ \E c \in AllIds : undoOutput(c)
    \/ \E c \in AllIds, b \in BOOLEAN : deleteCategory(c, b)
    \/ \E n \in PromptNames, c \in NewIds : addCategory(n, c)
    \/ \E c \in AllIds : openBulkModal(c)
    \/ closeBulkModal
    \/ \E x \in BulkInputs : saveBulkModal(x.name, x.lines)
    \/ \E b \in BOOLEAN : deleteFromModal(b)
    \/ \E b \in BOOLEAN : resetDefaults(b)
    \/ resetLoaded
    \/ resetFailed

Spec == Init /\ [][Next]_vars

----------------------------------------------------------------------------
(* Snapshots: today's history list.  init() drops the lists of other days   *)
(* (clearOldHistory) and leaves today's.                                    *)

MaxHistSteps == 5
MaxHistIds == 3

\* "h_" + Math.random().toString(16).slice(2, 10): the ids a save can draw;
\* a save draws one no earlier save drew
HistIds == 1..MaxHistIds

\* nowTime(): the local wall-clock time, which may stand still between two
\* saves or be set back
Times == {1, 2}

\* what the user can have in a textarea while snapshots are saved
SummaryTexts == { EmptyStr, <<"b">> }

CanRunHist == booted /\ steps < MaxHistSteps

\* hist.slice().reverse()
Reverse(seq) == [k \in 1..Len(seq) |-> seq[Len(seq) + 1 - k]]

\* getHistory().filter(x => x.id !== id)
RECURSIVE WithoutId(_, _)
WithoutId(hist, id) ==
    IF hist = <<>> THEN <<>>
    ELSE IF Head(hist).id = id THEN WithoutId(Tail(hist), id)
         ELSE <<Head(hist)>> \o WithoutId(Tail(hist), id)

\* a line of the downloaded file
Line(kind, time, text) == [kind |-> kind, time |-> time, text |-> text]

\* the lines downloadHistoryTxt pushes for the items from position i on
RECURSIVE EntryLines(_, _)
EntryLines(items, i) ==
    IF i > Len(items) THEN <<>>
    ELSE << Line("time", items[i].time, EmptyStr),
            Line("text", 0, items[i].text),
            Line("blank", 0, EmptyStr) >> \o EntryLines(items, i + 1)

\* the lines of the file: the date header, a blank line, then the items of
\* the reversed list
HistoryLines(hist) ==
    << Line("head", 0, EmptyStr), Line("blank", 0, EmptyStr) >>
        \o EntryLines(Reverse(hist), 1)

\* a history handler that changed nothing but what it showed
HistReturned(rec) ==
    /\ last' = rec
    /\ steps' = steps + 1
    /\ UNCHANGED <<state, outputsByCatId, lsState, lsOutputs, elSummary, modalCatId,
                   pending, booted, pt, po, pr>>

\* saveSnapshot without the check for an empty summary
saveSnapshotAnySummary(id, time) ==
    /\ CanRunHist
    /\ id \notin {saveLog[k] : k \in 1..Len(saveLog)}
    /\ history' = <<[id |-> id, time |-> time, text |-> Trim(elSummary)]>> \o history
    /\ saveLog' = Append(saveLog, id)
    /\ HistReturned(Ran("saveSnapshot", Null, id, TRUE, EmptyStr, FALSE))
    /\ UNCHANGED downloaded

\* saveSnapshot putting the new item at the end of the list (push for unshift)
saveSnapshotAtEnd(id, time) ==
    /\ CanRunHist
    /\ LET summary == Trim(elSummary)
       IN  IF summary = EmptyStr
           THEN /\ HistReturned([Ran("saveSnapshot", Null, 0, FALSE, EmptyStr, FALSE)
                       EXCEPT !.alert = "Nothing to save yet. Select some options first."])
                /\ UNCHANGED <<history, saveLog, downloaded>>
           ELSE /\ id \notin {saveLog[k] : k \in 1..Len(saveLog)}
                /\ history' = Append(history, [id |-> id, time |-> time, text |-> summary])
                /\ saveLog' = Append(saveLog, id)
                /\ HistReturned(Ran("saveSnapshot", Null, id, TRUE, EmptyStr, FALSE))
                /\ UNCHANGED downloaded

saveSnapshot(id, time) ==
    /\ CanRunHist
    /\ LET summary == Trim(elSummary)
       IN  IF summary = EmptyStr
           THEN /\ HistReturned([Ran("saveSnapshot", Null, 0, FALSE, EmptyStr, FALSE)
                       EXCEPT !.alert = "Nothing to save yet. Select some options first."])
                /\ UNCHANGED <<history, saveLog, downloaded>>
           ELSE /\ id \notin {saveLog[k] : k \in 1..Len(saveLog)}
                /\ history' = <<[id |-> id, time |-> time, text |-> summary]>> \o history
                /\ saveLog' = Append(saveLog, id)
                /\ HistReturned(Ran("saveSnapshot", Null, id, TRUE, EmptyStr, FALSE))
                /\ UNCHANGED downloaded

\* bDel.onclick of the item renderHistoryList showed with this id
deleteHistoryItem(id, confirmed) ==
    /\ CanRunHist
    /\ id \in {saveLog[k] : k \in 1..Len(saveLog)}
    /\ history' = IF confirmed THEN WithoutId(history, id) ELSE history
    /\ HistReturned(Ran("deleteHistoryItem", Null, id, confirmed, EmptyStr, FALSE))
    /\ UNCHANGED <<saveLog, downloaded>>

clearHistory(confirmed) ==
    /\ CanRunHist
    /\ history' = IF confirmed THEN <<>> ELSE history
    /\ HistReturned(Ran("clearHistory", Null, 0, confirmed, EmptyStr, FALSE))
    /\ UNCHANGED <<saveLog, downloaded>>

downloadHistoryTxt ==
    /\ CanRunHist
    /\ IF Len(history) = 0
       THEN /\ HistReturned([Ran("downloadHistoryTxt", Null, 0, FALSE, EmptyStr, FALSE)
                   EXCEPT !.alert = "No history to download today."])
            /\ UNCHANGED downloaded
       ELSE /\ downloaded' = HistoryLines(history)
            /\ HistReturned(Ran("downloadHistoryTxt", Null, 0, TRUE, EmptyStr, FALSE))
    /\ UNCHANGED <<history, saveLog>>

InitHistory == \E docs \in {FreshDocs, StoredDocs} : InitFrom(docs)

NextHistory ==
    \/ init
    \/ \E v \in SummaryTexts : onInput("c1", v)
    \/ \E id \in HistIds, t \in Times : saveSnapshot(id, t)
    \/ \E id \in HistIds, b \in BOOLEAN : deleteHistoryItem(id, b)
    \/ \E b \in BOOLEAN : clearHistory(b)
    \/ downloadHistoryTxt

SpecHistory == InitHistory /\ [][NextHistory]_vars

----------------------------------------------------------------------------
(* The pure functions, applied to every small text and option *)

MaxApply == 2

RECURSIVE Strs(_)
Strs(n) ==
    IF n = 0 THEN {EmptyStr}
    ELSE {EmptyStr} \cup {<<c>> \o s : c \in Chars, s \in Strs(n - 1)}

InitPure ==
    /\ state = NullState
    /\ outputsByCatId = NoOutputs
    /\ lsState = NullState
    /\ lsOutputs = NoOutputs
    /\ elSummary = EmptyStr
    /\ modalCatId = Null
    /\ pending = 0
    /\ booted = FALSE
    /\ last = NoOp
    /\ steps = 0
    /\ pt \in Strs(MaxTextLen)
    /\ po \in Strs(MaxOptLen)
    /\ pr = [ops |-> <<>>, vals |-> <<pt>>]
    /\ history = <<>>
    /\ saveLog = <<>>
    /\ downloaded = <<>>

\* the harness applies addOptionToken to the last result
applyAdd ==
    /\ Len(pr.ops) < MaxApply
    /\ pr' = [ops |-> Append(pr.ops, "add"),
              vals |-> Append(pr.vals, addOptionToken(pr.vals[Len(pr.vals)], po))]
    /\ UNCHANGED <<state, outputsByCatId, lsState, lsOutputs, elSummary,
                   modalCatId, pending, booted, last, steps, pt, po, history, saveLog, downloaded>>

\* the harness applies removeOptionToken to the last result
applyRemove ==
    /\ Len(pr.ops) < MaxApply
    /\ pr' = [ops |-> Append(pr.ops, "remove"),
              vals |-> Append(pr.vals, removeOptionToken(pr.vals[Len(pr.vals)], po))]
    /\ UNCHANGED <<state, outputsByCatId, lsState, lsOutputs, elSummary,
                   modalCatId, pending, booted, last, steps, pt, po, history, saveLog, downloaded>>

NextPure == applyAdd \/ applyRemove

SpecPure == InitPure /\ [][NextPure]_vars

----------------------------------------------------------------------------
(* Properties *)

SetOf(seq) == {seq[k] : k \in 1..Len(seq)}

\* the indices of the options of cat present as a token in text
TokensIn(cat, text) ==
    {i \in 1..Len(cat.options) : hasOptionToken(text, cat.options[i])}

\* the category a handler record names, in state st
CatOf(st, catId) == st.categories[FindCat(st, catId)]

\* the handler that just ran acted on an existing category with an output
ActedOn(st, outs, rec) == FindCat(st, rec.cat) # 0 /\ rec.cat \in DOMAIN outs

PushOps == {"toggleOption", "toggleAll", "input", "clearOutput"}

\* the toggle that just ran named an option of an existing category
ToggledOption(st, outs, rec) ==
    /\ rec.op = "toggleOption"
    /\ ActedOn(st, outs, rec)
    /\ rec.idx \in 1..Len(CatOf(st, rec.cat).options)
    /\ CatOf(st, rec.cat).options[rec.idx] # EmptyStr

\* C1: once init() has run, after every handler each category's selected is
\* exactly the set of indices of its options present as a token in its
\* current output text.
SelectedMatchesText ==
    booted =>
        \A i \in 1..Len(state.categories) :
            SetOf(state.categories[i].selected)
                = TokensIn(state.categories[i],
                           OutText(outputsByCatId, state.categories[i].id))

\* a free-text edit left custom text and one option token: "b, a" in c1
SelectedMatchesTextWitness ==
    /\ last.op = "input"
    /\ last.cat = "c1"
    /\ FindCat(state, "c1") # 0
    /\ outputsByCatId["c1"].text = <<"b", ",", " ", "a">>
    /\ CatOf(state, "c1").selected = <<1>>
    /\ CatOf(state, "c1").options = << <<"a">>, <<"a", "b">> >>

\* C2: an undo that directly follows a handler that pushed onto the same
\* category's undo stack restores the text that handler found, and selected
\* is the selection derived from the restored text.
UndoRestores ==
    [][ ( /\ last.op \in PushOps
          /\ last.pushed
          /\ last'.op = "undoOutput"
          /\ last'.on
          /\ last'.cat = last.cat )
        => ( /\ outputsByCatId'[last.cat].text = last.prev
             /\ outputsByCatId'[last.cat].lastValue = last.prev
             /\ SetOf(CatOf(state', last.cat).selected)
                    = TokensIn(CatOf(state', last.cat), last.prev) ) ]_vars

\* an undo brought back "ab", which only a free-text edit can have left
UndoRestoresWitness ==
    /\ last.op = "undoOutput"
    /\ last.on
    /\ last.cat = "c1"
    /\ steps = 3
    /\ outputsByCatId["c1"].text = <<"a", "b">>

\* the result of the last application in the pure-function harness
LastOp == pr.ops[Len(pr.ops)]
LastVal == pr.vals[Len(pr.vals)]
PrevVal == pr.vals[Len(pr.vals) - 1]

\* C3 as stated: for every text and every option string, the option is a
\* token of addToken's result.
AddThenHas ==
    (Len(pr.ops) > 0 /\ LastOp = "add") => hasOptionToken(LastVal, po)

\* C3 as amended: for every text and every non-empty option string that
\* neither starts nor ends with whitespace, the option is a token of
\* addToken's result; for the empty option addToken returns the text trimmed
\* and the option is no token of it.
AddThenHasTrimmedOption ==
    (Len(pr.ops) > 0 /\ LastOp = "add") =>
        /\ (po # EmptyStr /\ Trim(po) = po) => hasOptionToken(LastVal, po)
        /\ po = EmptyStr => (LastVal = Trim(PrevVal) /\ ~hasOptionToken(LastVal, po))

\* "a" was appended to the text "b," whose trailing separator was dropped
AddThenHasWitness ==
    /\ pr.ops = <<"add">>
    /\ pt = <<"b", ",">>
    /\ po = <<"a">>
    /\ LastVal = <<"b", ",", " ", "a">>

\* C4: for every text and every option string, the option is no token of
\* removeToken's result, also when the text holds it more than once.  Stated
\* for the options the program keeps: non-empty, without whitespace around.
RemoveThenHasNot ==
    (Len(pr.ops) > 0 /\ LastOp = "remove" /\ po # EmptyStr /\ Trim(po) = po)
        => ~hasOptionToken(LastVal, po)

\* C5: addToken and removeToken are idempotent: applying either a second time
\* to its own result changes nothing.  Stated for the options the program
\* keeps: non-empty, without whitespace around.
AddRemoveIdempotent ==
    ( /\ Len(pr.ops) >= 2
      /\ pr.ops[Len(pr.ops) - 1] = LastOp
      /\ po # EmptyStr
      /\ Trim(po) = po )
        => LastVal = PrevVal

\* text is in canonical form: trimmed, no stray separator at either end,
\* single ", " separators, no repeated whitespace
Canonical(t) ==
    /\ Trim(t) = t
    /\ StripTrailingSep(StripLeadingSep(t)) = t
    /\ CollapseCommas(t, 1) = t
    /\ CollapseSpaces(t, 1) = t

\* C6: checking option i and then unchecking it, with nothing in between,
\* leaves the category's text as it was before the first toggle.  Stated for
\* the round trip a checkbox can make: the option was unchecked (no token of
\* the text) and the text was in canonical form before the first toggle.
ToggleRoundTrip ==
    [][ ( /\ last.op = "toggleOption"
          /\ last.on
          /\ ToggledOption(state, outputsByCatId, last)
          /\ Canonical(last.prev)
          /\ ~hasOptionToken(last.prev, CatOf(state, last.cat).options[last.idx])
          /\ last'.op = "toggleOption"
          /\ ~last'.on
          /\ last'.cat = last.cat
          /\ last'.idx = last.idx )
        => outputsByCatId'[last.cat].text = last.prev ]_vars

\* C7: no undo stack ever holds more than UndoCap entries, and a push onto a
\* stack that holds UndoCap entries drops its oldest entry and appends the
\* prior text, whichever handler pushes.
UndoStackCapped ==
    [][ \A c \in DOMAIN outputsByCatId' :
            /\ Len(outputsByCatId'[c].undo) <= UndoCap
            /\ ( /\ last'.op \in PushOps
                 /\ last'.pushed
                 /\ last'.cat = c
                 /\ c \in DOMAIN outputsByCatId
                 /\ Len(outputsByCatId[c].undo) = UndoCap )
               => outputsByCatId'[c].undo
                      = Append(Tail(outputsByCatId[c].undo), last'.prev) ]_vars

\* a free-text edit pushed onto a full stack: the oldest entry, the empty
\* text, is gone and "a" is now the oldest
UndoStackCappedWitness ==
    /\ last.op = "input"
    /\ last.pushed
    /\ last.cat = "c1"
    /\ FindCat(state, "c1") # 0
    /\ Len(outputsByCatId["c1"].undo) = UndoCap
    /\ outputsByCatId["c1"].undo[1] = <<"a">>
    /\ outputsByCatId["c1"].undo[UndoCap] = last.prev

\* C8 as stated: a checkbox toggle whose next text equals the previous text
\* pushes nothing and leaves the output record (text, lastValue, dirty, undo)
\* and the selection exactly as they were.
ToggleNoOpLeavesAll ==
    [][ ( /\ ToggledOption(state, outputsByCatId, last')
          /\ ToggleNext(outputsByCatId[last'.cat].text,
                        CatOf(state, last'.cat).options[last'.idx], last'.on)
                 = outputsByCatId[last'.cat].text )
        => ( /\ outputsByCatId'[last'.cat] = outputsByCatId[last'.cat]
             /\ CatOf(state', last'.cat) = CatOf(state, last'.cat) ) ]_vars

\* C8 as amended: such a toggle pushes nothing and leaves text, lastValue, the
\* undo stack and the selection as they were; the dirty flag is set.
ToggleNoOpLeavesText ==
    [][ ( /\ ToggledOption(state, outputsByCatId, last')
          /\ ToggleNext(outputsByCatId[last'.cat].text,
                        CatOf(state, last'.cat).options[last'.idx], last'.on)
                 = outputsByCatId[last'.cat].text )
        => ( /\ outputsByCatId'[last'.cat]
                    = [outputsByCatId[last'.cat] EXCEPT !.dirty = TRUE]
             /\ CatOf(state', last'.cat) = CatOf(state, last'.cat) ) ]_vars

\* "a" was checked in c1 while the text already was "a"
ToggleNoOpWitness ==
    /\ last.op = "toggleOption"
    /\ last.on
    /\ ~last.pushed
    /\ last.cat = "c1"
    /\ last.idx = 1
    /\ last.prev = <<"a">>
    /\ FindCat(state, "c1") # 0
    /\ outputsByCatId["c1"].text = <<"a">>
    /\ outputsByCatId["c1"].dirty

\* opts.join(", ")
RECURSIVE JoinOptions(_)
JoinOptions(opts) ==
    IF opts = <<>> THEN EmptyStr
    ELSE IF Len(opts) = 1 THEN Head(opts)
    ELSE Head(opts) \o <<",", " ">> \o JoinOptions(Tail(opts))

\* the All/Clear that just ran was an All on non-empty custom text, in
\* canonical form, holding none of the category's options as a token
AllOnCustomText(st, outs, rec) ==
    /\ rec.op = "toggleAll"
    /\ rec.on
    /\ ActedOn(st, outs, rec)
    /\ rec.prev # EmptyStr
    /\ Canonical(rec.prev)
    /\ TokensIn(CatOf(st, rec.cat), rec.prev) = {}

\* C9: All on custom text that holds no option token yields the custom text
\* followed by every option in list order, joined with ", "; the All/Clear
\* that follows yields back exactly the custom text.
AllThenClearRoundTrip ==
    [][ AllOnCustomText(state, outputsByCatId, last)
        => ( /\ outputsByCatId[last.cat].text
                    = last.prev \o <<",", " ">> \o JoinOptions(CatOf(state, last.cat).options)
             /\ (last'.op = "toggleAll" /\ ~last'.on /\ last'.cat = last.cat)
                    => outputsByCatId'[last.cat].text = last.prev ) ]_vars

\* the All/Clear that just ran found an existing category with options
RanAllClear(st, outs, rec) ==
    /\ rec.op = "toggleAll"
    /\ ActedOn(st, outs, rec)
    /\ Len(CatOf(st, rec.cat).options) > 0

\* C10 as stated: one All/Clear grows the undo stack by exactly one entry, the
\* text before it, when the text changes and by none when it does not; the
\* undo that follows restores the text before the batch.
AllClearGrowsByOne ==
    [][ /\ RanAllClear(state, outputsByCatId, last')
            => Len(outputsByCatId'[last'.cat].undo)
                   = Len(outputsByCatId[last'.cat].undo)
                     + (IF outputsByCatId'[last'.cat].text
                               # outputsByCatId[last'.cat].text THEN 1 ELSE 0)
        /\ ( /\ last.op = "toggleAll"
             /\ last.pushed
             /\ last'.op = "undoOutput"
             /\ last'.on
             /\ last'.cat = last.cat )
            => outputsByCatId'[last.cat].text = last.prev ]_vars

\* C10 as amended: one All/Clear pushes exactly one entry, the text before
\* it, when the text changes (the stack grows by one, or, when it already
\* holds UndoCap entries, drops its oldest and keeps its length) and nothing
\* when the text does not change; the undo that follows restores the text
\* before the batch.
AllClearPushesOnce ==
    [][ /\ RanAllClear(state, outputsByCatId, last')
            => outputsByCatId'[last'.cat].undo
                   = IF outputsByCatId'[last'.cat].text = outputsByCatId[last'.cat].text
                     THEN outputsByCatId[last'.cat].undo
                     ELSE IF Len(outputsByCatId[last'.cat].undo) < UndoCap
                     THEN Append(outputsByCatId[last'.cat].undo,
                                 outputsByCatId[last'.cat].text)
                     ELSE Append(Tail(outputsByCatId[last'.cat].undo),
                                 outputsByCatId[last'.cat].text)
        /\ ( /\ last.op = "toggleAll"
             /\ last.pushed
             /\ last'.op = "undoOutput"
             /\ last'.on
             /\ last'.cat = last.cat )
            => outputsByCatId'[last.cat].text = last.prev ]_vars

\* an All added both options of c1 at once, pushing onto a full stack
AllClearPushesOnceWitness ==
    /\ last.op = "toggleAll"
    /\ last.on
    /\ last.pushed
    /\ last.cat = "c1"
    /\ FindCat(state, "c1") # 0
    /\ CatOf(state, "c1").selected = <<1, 2>>
    /\ Len(outputsByCatId["c1"].undo) = UndoCap
    /\ outputsByCatId["c1"].undo[1] = <<"a">>

----------------------------------------------------------------------------
(* Free-text edits, undo on an empty stack, bulk edits *)

\* C11: a free-text edit notification carrying newText pushes the last
\* observed value onto the undo stack exactly when it differs from newText;
\* afterwards text and lastValue both equal newText and selected is the
\* selection derived from newText.
InputEditPushesOnChange ==
    [][ last'.op = "input" =>
          LET c == last'.cat
              v == last'.val
              before == outputsByCatId[c]
              after == outputsByCatId'[c]
              u == Append(before.undo, before.lastValue)
          IN  /\ after.text = v
              /\ after.lastValue = v
              /\ after.undo = IF before.lastValue # v
                              THEN (IF Len(u) > UndoCap THEN Tail(u) ELSE u)
                              ELSE before.undo
              /\ SetOf(CatOf(state', c).selected) = TokensIn(CatOf(state', c), v) ]_vars

\* "b" was notified twice in c2: the first notification pushed the empty
\* text, the second pushed nothing
InputEditWitness ==
    /\ last.op = "input"
    /\ last.cat = "c2"
    /\ last.val = <<"b">>
    /\ ~last.pushed
    /\ FindCat(state, "c2") # 0
    /\ outputsByCatId["c2"].text = <<"b">>
    /\ outputsByCatId["c2"].undo = <<EmptyStr>>
    /\ CatOf(state, "c2").selected = <<1>>

\* C12: undo on a category whose undo stack is empty changes nothing: the
\* category's text, lastValue, dirty flag, undo stack and selection, every
\* other category, both persisted documents, the summary and the history
\* list are as they were, and nothing is reported.
UndoOnEmptyIsNoOp ==
    [][ ( /\ last'.op = "undoOutput"
          /\ ActedOn(state, outputsByCatId, last')
          /\ Len(outputsByCatId[last'.cat].undo) = 0 )
        => ( /\ UNCHANGED <<state, outputsByCatId, lsState, lsOutputs, elSummary,
                            history>>
             /\ last'.alert = "" ) ]_vars

\* undo was asked of c2, never touched: its stack is empty, it is not dirty,
\* and the history list still holds its item
UndoOnEmptyWitness ==
    /\ last.op = "undoOutput"
    /\ last.cat = "c2"
    /\ ~last.on
    /\ FindCat(state, "c2") # 0
    /\ outputsByCatId["c2"] = NewOutput
    /\ Len(history) = 1

\* C13: saving the bulk modal leaves the category's output text, undo stack
\* and lastValue (and its dirty flag) as they were, and leaves every other
\* category and output alone; of the category only name, options and selected
\* change, and selected is exactly the indices of the new options present as
\* tokens in the existing text.
BulkSaveKeepsText ==
    [][ (last'.op = "saveBulkModal" /\ last'.on) =>
          LET c == last'.cat
              p == FindCat(state, c)
              cat == state.categories[p]
              cat1 == state'.categories[p]
          IN  /\ c \in DOMAIN outputsByCatId
              /\ outputsByCatId' = outputsByCatId
              /\ Len(state'.categories) = Len(state.categories)
              /\ \A i \in 1..Len(state.categories) :
                     i # p => state'.categories[i] = state.categories[i]
              /\ cat1.id = cat.id
              /\ SetOf(cat1.selected) = TokensIn(cat1, outputsByCatId[c].text)
              /\ Len(cat1.selected) = Cardinality(SetOf(cat1.selected)) ]_vars

\* c1 held "a" with options "a", "ab" and selected <<1>>; the bulk edit made
\* its options "b", "a": the text and the undo stack are as they were and
\* "a" is now option 2
BulkSaveWitness ==
    /\ last.op = "saveBulkModal"
    /\ last.on
    /\ last.cat = "c1"
    /\ FindCat(state, "c1") # 0
    /\ CatOf(state, "c1").options = << <<"b">>, <<"a">> >>
    /\ CatOf(state, "c1").selected = <<2>>
    /\ outputsByCatId["c1"].text = <<"a">>
    /\ outputsByCatId["c1"].undo = <<EmptyStr>>

----------------------------------------------------------------------------
(* The summary *)

\* the trimmed output texts of the categories, in category order
TrimmedTexts(st, outs) ==
    [i \in 1..Len(st.categories) |-> Trim(OutText(outs, st.categories[i].id))]

\* texts joined by a blank line
RECURSIVE JoinByBlankLine(_)
JoinByBlankLine(texts) ==
    IF Len(texts) = 0 THEN EmptyStr
    ELSE IF Len(texts) = 1 THEN texts[1]
    ELSE texts[1] \o <<"\n", "\n">> \o JoinByBlankLine(Tail(texts))

NonEmpty(t) == t # EmptyStr

\* C14: once init() has run, after every handler the displayed summary is
\* the trimmed, non-empty output texts of the categories in stored category
\* order, joined by a blank line, the empty ones left out.
SummaryInSync ==
    booted =>
        elSummary = JoinByBlankLine(SelectSeq(TrimmedTexts(state, outputsByCatId), NonEmpty))

\* c1 holds "a" and c2 holds " b": the summary is "a", a blank line, "b"
SummaryInSyncWitness ==
    /\ booted
    /\ last.op = "input"
    /\ FindCat(state, "c1") = 1
    /\ FindCat(state, "c2") = 2
    /\ outputsByCatId["c1"].text = <<"a">>
    /\ outputsByCatId["c2"].text = <<" ", "b">>
    /\ elSummary = <<"a", "\n", "\n", "b">>

----------------------------------------------------------------------------
(* Snapshots and the history list *)

\* C15: a save while the summary is empty after trimming creates no entry:
\* the history list is as it was, nothing else changes, and the user is told
\* there is nothing to save.
SaveEmptyRejected ==
    [][ (last'.op = "saveSnapshot" /\ Trim(elSummary) = EmptyStr)
        => ( /\ history' = history
             /\ ~last'.on
             /\ last'.alert = "Nothing to save yet. Select some options first."
             /\ UNCHANGED <<state, outputsByCatId, lsState, lsOutputs, elSummary>> )
      ]_vars

\* the text of c1 was emptied, then a save was refused: the list still holds
\* the one item stored before
SaveEmptyRejectedWitness ==
    /\ last.op = "saveSnapshot"
    /\ ~last.on
    /\ last.alert # ""
    /\ elSummary = EmptyStr
    /\ Len(history) = 1
    /\ history[1].text = <<"a">>

\* the position of the save that drew id among all saves of the day
SavePos(id) == CHOOSE k \in 1..Len(saveLog) : saveLog[k] = id

\* the list shows its items most recent save first
MostRecentFirst(hist) ==
    \A i, j \in 1..Len(hist) : i < j => SavePos(hist[i].id) > SavePos(hist[j].id)

IsEntryLine(l) == l.kind \in {"time", "text"}

\* the (time, text) entries of a downloaded file, in the order of its lines
FileEntries(lines) ==
    LET ls == SelectSeq(lines, IsEntryLine)
    IN  [k \in 1..(Len(ls) \div 2) |->
            [time |-> ls[2 * k - 1].time, text |-> ls[2 * k].text]]

\* C16: within one day, after any saves and deletions the list holds the
\* surviving items most recent save first; each successful save puts exactly
\* one item, the trimmed summary, at the front; a deletion removes the item
\* of that id and keeps the others in place; the downloaded file renders the
\* items of the list in save order, oldest first.
HistoryOrder ==
    /\ [](\A i \in 1..Len(history) : history[i].id \in {saveLog[k] : k \in 1..Len(saveLog)})
    /\ [](MostRecentFirst(history))
    /\ [][ (last'.op = "saveSnapshot" /\ last'.on)
           => ( /\ Len(history') = Len(history) + 1
                /\ Tail(history') = history
                /\ history'[1].id = last'.idx
                /\ history'[1].text = Trim(elSummary) ) ]_vars
    /\ [][ (last'.op = "deleteHistoryItem" /\ last'.on)
           => history' = SelectSeq(history, LAMBDA x : x.id # last'.idx) ]_vars
    /\ [][ (last'.op = "downloadHistoryTxt" /\ last'.on)
           => ( /\ Len(FileEntries(downloaded')) = Len(history)
                /\ \A k \in 1..Len(history) :
                       FileEntries(downloaded')[k]
                           = [time |-> history[Len(history) + 1 - k].time,
                              text |-> history[Len(history) + 1 - k].text] ) ]_vars

\* "a" was saved on an earlier run, "b" twice on this one, and the first "b"
\* was deleted: the list is the second "b" then "a", the file "a" then "b"
HistoryOrderWitness ==
    /\ last.op = "downloadHistoryTxt"
    /\ last.on
    /\ saveLog = <<1, 2, 3>>
    /\ Len(history) = 2
    /\ history[1].id = 3
    /\ history[1].text = <<"b">>
    /\ history[2].id = 1
    /\ history[2].text = <<"a">>
    /\ FileEntries(downloaded)[1].text = <<"a">>
    /\ FileEntries(downloaded)[2].text = <<"b">>

----------------------------------------------------------------------------
(* Categories and their outputs *)

\* C17: once init() has run, after every handler the keys of the output map
\* are exactly the category ids and no two categories share an id; adding a
\* category creates its output with empty text and empty undo stack, and
\* deleting a category removes its output in the same step.
OutputPerCategory ==
    /\ [](booted =>
            /\ DOMAIN outputsByCatId = CatIds(state)
            /\ Cardinality(CatIds(state)) = Len(state.categories))
    /\ [][ (last'.op = "addCategory" /\ last'.on)
           => ( /\ last'.cat \notin CatIds(state)
                /\ CatIds(state') = CatIds(state) \cup {last'.cat}
                /\ outputsByCatId'[last'.cat].text = EmptyStr
                /\ outputsByCatId'[last'.cat].undo = <<>> ) ]_vars
    /\ [][ (last'.op = "deleteCategory" /\ last'.on)
           => ( /\ last'.cat \in CatIds(state)
                /\ CatIds(state') = CatIds(state) \ {last'.cat}
                /\ DOMAIN outputsByCatId' = (DOMAIN outputsByCatId) \ {last'.cat} ) ]_vars

\* a category was added, then c1, which held text, was deleted: the outputs
\* left are those of the new category and of c2
OutputPerCategoryWitness ==
    /\ last.op = "deleteCategory"
    /\ last.on
    /\ last.cat = "c1"
    /\ CatIds(state) = {"n1", "c2"}
    /\ DOMAIN outputsByCatId = {"n1", "c2"}
    /\ outputsByCatId["n1"] = NewOutput
    /\ lsOutputs = outputsByCatId

\* C18: when loading the defaults fails, during a reset or at startup, the
\* failure is shown to the user and the category tree, the output map and
\* both persisted documents are as they were before the call; the part of a
\* reset that runs before the load changes none of them either.
LoadFailureLeavesState ==
    [][ /\ (last'.op = "resetFailed" \/ (last'.op = "initFailed" /\ last.op = "none"))
           => ( /\ UNCHANGED <<state, outputsByCatId, lsState, lsOutputs>>
                /\ last'.alert # "" )
        /\ last'.op = "resetDefaults"
           => UNCHANGED <<state, outputsByCatId, lsState, lsOutputs>> ]_vars

\* a reset failed to load the defaults while c1 held "a": the tree and both
\* documents still hold what they held
LoadFailureWitness ==
    /\ last.op = "resetFailed"
    /\ last.alert = "Failed to load defaults.json"
    /\ FindCat(state, "c1") # 0
    /\ CatOf(state, "c1").selected = <<1>>
    /\ outputsByCatId["c1"].text = <<"a">>
    /\ lsState = state
    /\ lsOutputs = outputsByCatId

----------------------------------------------------------------------------
(* Exact tokens *)

\* C19: a checkbox toggle of option i keeps the other tokens of the text:
\* every other option j of the category whose string differs from option i
\* is selected after the toggle exactly if it was selected before.  Stated
\* for the toggle a checkbox can make (checking an unchecked option,
\* unchecking a checked one) on a text in canonical form.
ToggleKeepsOtherTokens ==
    [][ ( /\ ToggledOption(state, outputsByCatId, last')
          /\ last'.on = (last'.idx \notin SetOf(CatOf(state, last'.cat).selected))
          /\ Canonical(outputsByCatId[last'.cat].text) )
        => LET cat == CatOf(state, last'.cat)
               cat1 == CatOf(state', last'.cat)
           IN  \A j \in 1..Len(cat.options) :
                   cat.options[j] # cat.options[last'.idx]
                       => (j \in SetOf(cat1.selected) <=> j \in SetOf(cat.selected)) ]_vars

\* C20: removing an option from a text in canonical form in which the option
\* is no token returns the text as it was.  Stated for the options the
\* program keeps: non-empty, without whitespace around.
RemoveLeavesCustomText ==
    ( /\ Len(pr.ops) > 0
      /\ LastOp = "remove"
      /\ po # EmptyStr
      /\ Trim(po) = po
      /\ Canonical(PrevVal)
      /\ ~hasOptionToken(PrevVal, po) )
        => LastVal = PrevVal

----------------------------------------------------------------------------
(* One category per action; the persisted documents; resets *)

\* the handlers that act on one category's output
OutputOps == {"toggleOption", "toggleAll", "input", "clearOutput", "undoOutput"}

\* C21: a checkbox toggle, a free-text edit, All/Clear, an output clear and
\* an undo applied to category c leave every other category (name, options,
\* selected) and every other output (text, dirty, undo stack, lastValue) as
\* they were, add and remove none, and leave the history list as it was.
OtherCategoriesUntouched ==
    [][ last'.op \in OutputOps =>
          /\ Len(state'.categories) = Len(state.categories)
          /\ \A i \in 1..Len(state.categories) :
                 /\ state'.categories[i].id = state.categories[i].id
                 /\ state.categories[i].id # last'.cat
                        => state'.categories[i] = state.categories[i]
          /\ DOMAIN outputsByCatId' = DOMAIN outputsByCatId
          /\ \A k \in DOMAIN outputsByCatId :
                 k # last'.cat => outputsByCatId'[k] = outputsByCatId[k]
          /\ history' = history ]_vars

\* c1 was cleared while c2 held "b": c2 still holds it, with its stack and
\* its selection, and the history list still holds its item
OtherCategoriesWitness ==
    /\ last.op = "clearOutput"
    /\ last.cat = "c1"
    /\ last.prev = <<"a">>
    /\ FindCat(state, "c2") # 0
    /\ outputsByCatId["c1"].text = EmptyStr
    /\ outputsByCatId["c2"].text = <<"b">>
    /\ outputsByCatId["c2"].undo = <<EmptyStr>>
    /\ CatOf(state, "c2").selected = <<1>>
    /\ Len(history) = 1

\* C22 as stated: once init() has run, after every handler the stored
\* category-tree document equals the category tree in memory and the stored
\* output-map document equals the output map in memory.
PersistedEqualsMemory ==
    booted => (lsState = state /\ lsOutputs = outputsByCatId)

\* C22 as amended: once init() has run, after every handler the stored
\* category-tree document equals the category tree in memory, and the stored
\* output-map document, completed with a fresh empty entry for every category
\* it has none for, equals the output map in memory.
PersistedRebuildsMemory ==
    booted =>
        /\ lsState = state
        /\ DOMAIN lsOutputs \subseteq DOMAIN outputsByCatId
        /\ EnsureAll(lsState, lsOutputs) = outputsByCatId

\* a reset completed: the stored output map is empty while the map in memory
\* holds the fresh entries renderOutputs created after persist()
PersistedRebuildsWitness ==
    /\ last.op = "resetLoaded"
    /\ lsOutputs = NoOutputs
    /\ DOMAIN outputsByCatId = {"c1", "c2"}
    /\ outputsByCatId["c1"] = NewOutput
    /\ outputsByCatId["c2"] = NewOutput
    /\ lsState = state

\* C23: at most one load of the defaults is pending at any time; a reset
\* requested while a load is still awaited is rejected or deferred.
AtMostOneLoadPending ==
    pending <= 1

\* C24: whenever a reset to defaults completes, the category tree is the
\* loaded defaults (same ids, names and options, in the same order) with
\* every selected list empty, the output map has exactly one entry per
\* default category, each with empty text and an empty undo stack, whatever
\* handlers ran while the load was pending; the history list is as it was.
ResetYieldsDefaults ==
    [][ (last'.op = "resetLoaded" /\ pending' = pending - 1) =>
          /\ Len(state'.categories) = Len(Defaults)
          /\ \A i \in 1..Len(Defaults) :
                 /\ state'.categories[i].id = Defaults[i].id
                 /\ state'.categories[i].name = Defaults[i].name
                 /\ state'.categories[i].options = Defaults[i].options
                 /\ state'.categories[i].selected = <<>>
          /\ DOMAIN outputsByCatId' = {Defaults[i].id : i \in 1..Len(Defaults)}
          /\ \A c \in DOMAIN outputsByCatId' :
                 /\ outputsByCatId'[c].text = EmptyStr
                 /\ outputsByCatId'[c].undo = <<>>
          /\ elSummary' = EmptyStr
          /\ history' = history ]_vars

\* two resets were requested on a tree whose c1 held "a" with a non-empty
\* undo stack; the first has completed, the second is still pending
ResetYieldsDefaultsWitness ==
    /\ last.op = "resetLoaded"
    /\ pending = 1
    /\ steps = 3
    /\ Len(history) = 1
    /\ Len(state.categories) = 2
    /\ CatOf(state, "c1").selected = <<>>
    /\ outputsByCatId["c1"] = NewOutput
    /\ outputsByCatId["c2"] = NewOutput

====
